---- MODULE Spec2Model ----
(***************************************************************************)
(* BrewKits documentation site: the generated client-side route table,    *)
(* its resolution for a navigation path, and the stateless presentational *)
(* components (HomepageFeatures, BuyMeACoffee, HomepageHeader, Home).     *)
(*                                                                         *)
(* Representation.  A URL path is the sequence of its segments:           *)
(* '/' is << >>, '/docs/intro' is <<"docs", "intro">>.  The catch-all     *)
(* route pattern '*' is the one-element sequence Star.  A string whose    *)
(* characters matter (an href) is the sequence of its characters.         *)
(***************************************************************************)
EXTENDS Naturals, Sequences, FiniteSets

VARIABLES
    routes,       \* the route table handed to the router
    featureList,  \* the compiled-in feature items
    siteConfig,   \* the site configuration (useDocusaurusContext().siteConfig)
    widget,       \* which BuyMeACoffee module the build bundles
    location,     \* the current navigation path
    mounted,      \* the branch of route entries matched for location
    rendered,     \* the markup produced by the last component render
    work,         \* a resolution in progress: the siblings still to try
    visits        \* a resolution in progress: the entries tried so far

vars == <<routes, featureList, siteConfig, widget, location, mounted, rendered,
          work, visits>>

\* JavaScript's undefined, for a property an object literal leaves out.
Undefined == "undefined"

\* The route pattern '*'.
Star == <<"*">>

\* ComponentCreator(path, hash): the opaque lazily-loaded component reference.
ComponentCreator(path, hash) == [path |-> path, hash |-> hash]

Range(s) == {s[i] : i \in DOMAIN s}

Last(s) == s[Len(s)]

IsPrefix(s, t) == Len(s) <= Len(t) /\ SubSeq(t, 1, Len(s)) = s

(***************************************************************************)
(* The generated route table.                                              *)
(***************************************************************************)
\* The seventeen exact '/blog...' entries.
BlogRoutes ==
    <<[path |-> <<"blog">>,
        component |-> ComponentCreator(<<"blog">>, "f31"),
        exact |-> TRUE, sidebar |-> Undefined, routes |-> <<>>],
      [path |-> <<"blog", "archive">>,
        component |-> ComponentCreator(<<"blog", "archive">>, "182"),
        exact |-> TRUE, sidebar |-> Undefined, routes |-> <<>>],
      [path |-> <<"blog", "authors">>,
        component |-> ComponentCreator(<<"blog", "authors">>, "0b7"),
        exact |-> TRUE, sidebar |-> Undefined, routes |-> <<>>],
      [path |-> <<"blog", "authors", "brewkits">>,
        component |-> ComponentCreator(<<"blog", "authors", "brewkits">>, "296"),
        exact |-> TRUE, sidebar |-> Undefined, routes |-> <<>>],
      [path |-> <<"blog", "flutter-publishing-guide">>,
        component |-> ComponentCreator(<<"blog", "flutter-publishing-guide">>, "093"),
        exact |-> TRUE, sidebar |-> Undefined, routes |-> <<>>],
      [path |-> <<"blog", "kmp-getting-started">>,
        component |-> ComponentCreator(<<"blog", "kmp-getting-started">>, "303"),
        exact |-> TRUE, sidebar |-> Undefined, routes |-> <<>>],
      [path |-> <<"blog", "tags">>,
        component |-> ComponentCreator(<<"blog", "tags">>, "287"),
        exact |-> TRUE, sidebar |-> Undefined, routes |-> <<>>],
      [path |-> <<"blog", "tags", "announcement">>,
        component |-> ComponentCreator(<<"blog", "tags", "announcement">>, "e2c"),
        exact |-> TRUE, sidebar |-> Undefined, routes |-> <<>>],
      [path |-> <<"blog", "tags", "brewkits">>,
        component |-> ComponentCreator(<<"blog", "tags", "brewkits">>, "816"),
        exact |-> TRUE, sidebar |-> Undefined, routes |-> <<>>],
      [path |-> <<"blog", "tags", "flutter">>,
        component |-> ComponentCreator(<<"blog", "tags", "flutter">>, "8b8"),
        exact |-> TRUE, sidebar |-> Undefined, routes |-> <<>>],
      [path |-> <<"blog", "tags", "kmp">>,
        component |-> ComponentCreator(<<"blog", "tags", "kmp">>, "e7c"),
        exact |-> TRUE, sidebar |-> Undefined, routes |-> <<>>],
      [path |-> <<"blog", "tags", "kotlin">>,
        component |-> ComponentCreator(<<"blog", "tags", "kotlin">>, "50b"),
        exact |-> TRUE, sidebar |-> Undefined, routes |-> <<>>],
      [path |-> <<"blog", "tags", "multiplatform">>,
        component |-> ComponentCreator(<<"blog", "tags", "multiplatform">>, "b2c"),
        exact |-> TRUE, sidebar |-> Undefined, routes |-> <<>>],
      [path |-> <<"blog", "tags", "pub-dev">>,
        component |-> ComponentCreator(<<"blog", "tags", "pub-dev">>, "a72"),
        exact |-> TRUE, sidebar |-> Undefined, routes |-> <<>>],
      [path |-> <<"blog", "tags", "publishing">>,
        component |-> ComponentCreator(<<"blog", "tags", "publishing">>, "472"),
        exact |-> TRUE, sidebar |-> Undefined, routes |-> <<>>],
      [path |-> <<"blog", "tags", "tutorial">>,
        component |-> ComponentCreator(<<"blog", "tags", "tutorial">>, "5fd"),
        exact |-> TRUE, sidebar |-> Undefined, routes |-> <<>>],
      [path |-> <<"blog", "welcome-to-brewkits">>,
        component |-> ComponentCreator(<<"blog", "welcome-to-brewkits">>, "139"),
        exact |-> TRUE, sidebar |-> Undefined, routes |-> <<>>]>>

\* Fault: the entry's component created for another path.
MarkdownPageRoute_WrongComponent ==
    [path |-> <<"markdown-page">>,
     component |-> ComponentCreator(<<"blog">>, "3d7"),
     exact |-> TRUE, sidebar |-> Undefined, routes |-> <<>>]

MarkdownPageRoute ==
    [path |-> <<"markdown-page">>,
      component |-> ComponentCreator(<<"markdown-page">>, "3d7"),
      exact |-> TRUE, sidebar |-> Undefined, routes |-> <<>>]

\* The seven exact documentation leaves, all under the shared sidebar.
DocsLeafRoutes ==
    <<[path |-> <<"docs", "flutter", "best-practices">>,
        component |-> ComponentCreator(<<"docs", "flutter", "best-practices">>, "b48"),
        exact |-> TRUE, sidebar |-> "tutorialSidebar", routes |-> <<>>],
      [path |-> <<"docs", "flutter", "getting-started">>,
        component |-> ComponentCreator(<<"docs", "flutter", "getting-started">>, "771"),
        exact |-> TRUE, sidebar |-> "tutorialSidebar", routes |-> <<>>],
      [path |-> <<"docs", "flutter", "publishing">>,
        component |-> ComponentCreator(<<"docs", "flutter", "publishing">>, "a10"),
        exact |-> TRUE, sidebar |-> "tutorialSidebar", routes |-> <<>>],
      [path |-> <<"docs", "intro">>,
        component |-> ComponentCreator(<<"docs", "intro">>, "61d"),
        exact |-> TRUE, sidebar |-> "tutorialSidebar", routes |-> <<>>],
      [path |-> <<"docs", "kmp", "best-practices">>,
        component |-> ComponentCreator(<<"docs", "kmp", "best-practices">>, "3c7"),
        exact |-> TRUE, sidebar |-> "tutorialSidebar", routes |-> <<>>],
      [path |-> <<"docs", "kmp", "getting-started">>,
        component |-> ComponentCreator(<<"docs", "kmp", "getting-started">>, "e2d"),
        exact |-> TRUE, sidebar |-> "tutorialSidebar", routes |-> <<>>],
      [path |-> <<"docs", "kmp", "publishing">>,
        component |-> ComponentCreator(<<"docs", "kmp", "publishing">>, "a36"),
        exact |-> TRUE, sidebar |-> "tutorialSidebar", routes |-> <<>>]>>

\* The documentation subtree: three nested '/docs' wrappers (plugin root,
\* version root, sidebar root) around the leaves; none carries an exact flag.
DocsRoute ==
    [path |-> <<"docs">>,
     component |-> ComponentCreator(<<"docs">>, "862"),
     exact |-> FALSE, sidebar |-> Undefined, routes |-> <<
    [path |-> <<"docs">>,
     component |-> ComponentCreator(<<"docs">>, "38f"),
     exact |-> FALSE, sidebar |-> Undefined, routes |-> <<
    [path |-> <<"docs">>,
     component |-> ComponentCreator(<<"docs">>, "d99"),
     exact |-> FALSE, sidebar |-> Undefined, routes |-> DocsLeafRoutes] >>] >>]

\* Fault: '/' emitted without its exact flag.
HomeRoute_NotExact ==
    [path |-> <<>>,
     component |-> ComponentCreator(<<>>, "e5f"),
     exact |-> FALSE, sidebar |-> Undefined, routes |-> <<>>]

HomeRoute ==
    [path |-> <<>>,
      component |-> ComponentCreator(<<>>, "e5f"),
      exact |-> TRUE, sidebar |-> Undefined, routes |-> <<>>]

\* The catch-all entry: ComponentCreator('*') has no hash and no exact flag.
CatchAllRoute ==
    [path |-> Star,
      component |-> ComponentCreator(Star, Undefined),
      exact |-> FALSE, sidebar |-> Undefined, routes |-> <<>>]

\* Faults of the table: '*' emitted first; '/blog' emitted without its exact
\* flag; an entry emitted twice; '*' emitted before '/'; '*' not emitted.
RouteTable_CatchAllFirst ==
    <<CatchAllRoute>> \o BlogRoutes \o <<MarkdownPageRoute, DocsRoute, HomeRoute>>

RouteTable_BlogIndexNotExact ==
    <<[BlogRoutes[1] EXCEPT !.exact = FALSE]>> \o Tail(BlogRoutes)
        \o <<MarkdownPageRoute, DocsRoute, HomeRoute, CatchAllRoute>>

RouteTable_DuplicateEntry ==
    BlogRoutes \o <<BlogRoutes[1], MarkdownPageRoute, DocsRoute, HomeRoute, CatchAllRoute>>

RouteTable_CatchAllBeforeHome ==
    BlogRoutes \o <<MarkdownPageRoute, DocsRoute, CatchAllRoute, HomeRoute>>

RouteTable_NoCatchAll ==
    BlogRoutes \o <<MarkdownPageRoute, DocsRoute, HomeRoute>>

RouteTable ==
    BlogRoutes \o <<MarkdownPageRoute, DocsRoute, HomeRoute, CatchAllRoute>>

(***************************************************************************)
(* Route resolution: the router's ordered first-match traversal.           *)
(***************************************************************************)
\* A route matches a pathname when its pattern is '*', or its path is a
\* prefix of the pathname at a segment boundary and, when the entry is
\* exact, the whole of it.
matchPath(pathname, route) ==
    \/ route.path = Star
    \/ /\ IsPrefix(route.path, pathname)
       /\ (route.exact => route.path = pathname)

\* The branch of matched entries: the first matching sibling in array
\* order, then the first matching child of it, and so on.
RECURSIVE matchRoutes(_, _)
matchRoutes(rs, pathname) ==
    IF rs = <<>> THEN <<>>
    ELSE IF matchPath(pathname, Head(rs))
         THEN <<Head(rs)>> \o matchRoutes(Head(rs).routes, pathname)
         ELSE matchRoutes(Tail(rs), pathname)

\* Every entry of a route tree, parents before their children.
RECURSIVE Flatten(_)
Flatten(rs) ==
    IF rs = <<>> THEN <<>>
    ELSE <<Head(rs)>> \o Flatten(Head(rs).routes) \o Flatten(Tail(rs))

(***************************************************************************)
(* Navigation paths tried: every entry path, every prefix of one, and     *)
(* each of those extended by up to MaxExtra segments of ExtraSegments.    *)
(***************************************************************************)
MaxExtra == 1

ExtraSegments == {"unknown", "intro"}

Prefixes(p) == {SubSeq(p, 1, n) : n \in 0..Len(p)}

BasePaths ==
    UNION {Prefixes(e.path) : e \in {r \in Range(Flatten(RouteTable)) : r.path # Star}}

RECURSIVE Extensions(_)
Extensions(n) ==
    IF n = 0 THEN {<<>>}
    ELSE Extensions(n - 1) \cup
         {x \o <<s>> : x \in {y \in Extensions(n - 1) : Len(y) = n - 1},
                       s \in ExtraSegments}

NavPaths == {b \o x : b \in BasePaths, x \in Extensions(MaxExtra)}

(***************************************************************************)
(* Feature list component.                                                 *)
(***************************************************************************)
FeatureList ==
    <<[title |-> "Flutter Libraries",
       Svg |-> "@site/static/img/undraw_docusaurus_mountain.svg",
       description |-> "Publishing high-quality Flutter packages to pub.dev with best practices, comprehensive documentation, and reliable maintenance."],
      [title |-> "Kotlin Multiplatform",
       Svg |-> "@site/static/img/undraw_docusaurus_tree.svg",
       description |-> "Crafting KMP libraries for klibs.io with cross-platform excellence, supporting Android, iOS, and beyond."],
      [title |-> "Open Source Excellence",
       Svg |-> "@site/static/img/undraw_docusaurus_react.svg",
       description |-> "Committed to building trusted, well-documented libraries that developers can rely on. Join us in creating better mobile experiences."]>>

\* Fault: half-width columns.
Feature_Col6(props) ==
    [className |-> "col col--6",
     Svg |-> props.Svg,
     heading |-> props.title,
     text |-> props.description]

\* One column: the icon, the title as an h3 heading, the description.
Feature(props) ==
    [className |-> "col col--4",
     Svg |-> props.Svg,
     heading |-> props.title,
     text |-> props.description]

\* Fault: the map stops one item short.
HomepageFeatures_DropLast(list) ==
    [kind |-> "HomepageFeatures",
     row |-> [idx \in 1..(Len(list) - 1) |-> Feature(list[idx])]]

\* FeatureList.map(Feature) inside section > container > row.
HomepageFeatures(list) ==
    [kind |-> "HomepageFeatures",
     row |-> [idx \in 1..Len(list) |-> Feature(list[idx])]]

(***************************************************************************)
(* Support widget: the two BuyMeACoffee modules present in the source.    *)
(***************************************************************************)
CoffeeHref ==
    <<"h", "t", "t", "p", "s", ":", "/", "/", "w", "w", "w", ".", "b", "u",
      "y", "m", "e", "a", "c", "o", "f", "f", "e", "e", ".", "c", "o", "m",
      "/", "b", "r", "e", "w", "k", "i", "t", "s">>

PatreonHref ==
    <<"h", "t", "t", "p", "s", ":", "/", "/", "w", "w", "w", ".", "p", "a",
      "t", "r", "e", "o", "n", ".", "c", "o", "m", "/", "b", "r", "e", "w",
      "k", "i", "t", "s">>

\* src/components/BuyMeACoffee/index.tsx: the coffee button alone.
BuyMeACoffeeCoffee ==
    [kind |-> "BuyMeACoffee", className |-> "coffeeContainer",
     links |-> <<[href |-> CoffeeHref, target |-> "_blank",
                  rel |-> "noopener noreferrer",
                  className |-> "coffeeButton", text |-> "Buy Me a Coffee"]>>]

\* The variant with a second, Patreon, button.
BuyMeACoffeeSupport ==
    [kind |-> "BuyMeACoffee", className |-> "supportContainer",
     links |-> <<[href |-> CoffeeHref, target |-> "_blank",
                  rel |-> "noopener noreferrer",
                  className |-> "coffeeButton", text |-> "Buy Me a Coffee"],
                 [href |-> PatreonHref, target |-> "_blank",
                  rel |-> "noopener noreferrer",
                  className |-> "patreonButton", text |-> "Support on Patreon"]>>]

Widgets == {"coffeeContainer", "supportContainer"}

\* Faults: a plain-http destination; a link without rel.
BuyMeACoffee_Http(w) ==
    [kind |-> "BuyMeACoffee", className |-> w,
     links |-> <<[href |-> SubSeq(CoffeeHref, 1, 4) \o SubSeq(CoffeeHref, 6, Len(CoffeeHref)),
                  target |-> "_blank", rel |-> "noopener noreferrer",
                  className |-> "coffeeButton", text |-> "Buy Me a Coffee"]>>]

BuyMeACoffee_NoRel(w) ==
    [kind |-> "BuyMeACoffee", className |-> w,
     links |-> <<[href |-> CoffeeHref, target |-> "_blank", rel |-> Undefined,
                  className |-> "coffeeButton", text |-> "Buy Me a Coffee"]>>]

BuyMeACoffee(w) ==
    IF w = "coffeeContainer" THEN BuyMeACoffeeCoffee ELSE BuyMeACoffeeSupport

(***************************************************************************)
(* Site configuration and the homepage.                                    *)
(***************************************************************************)
GitHubHref ==
    <<"h", "t", "t", "p", "s", ":", "/", "/", "g", "i", "t", "h", "u", "b",
      ".", "c", "o", "m", "/", "b", "r", "e", "w", "k", "i", "t", "s">>

\* Fault: the Docs item names a sidebar no document is under.
NavbarItems_OtherSidebar ==
    <<[type |-> "docSidebar", sidebarId |-> "docsSidebar",
       position |-> "left", label |-> "Docs"],
      [to |-> <<"blog">>, label |-> "Blog", position |-> "left"],
      [href |-> GitHubHref, label |-> "GitHub", position |-> "right"]>>

\* Fault: the Blog item emitted before the Docs item.
NavbarItems_BlogFirst ==
    <<[to |-> <<"blog">>, label |-> "Blog", position |-> "left"],
      [type |-> "docSidebar", sidebarId |-> "tutorialSidebar",
       position |-> "left", label |-> "Docs"],
      [href |-> GitHubHref, label |-> "GitHub", position |-> "right"]>>

\* docusaurus.config.ts, themeConfig.navbar.items.  A property an item
\* leaves out is a field the record does not have.
NavbarItems ==
    <<[type |-> "docSidebar", sidebarId |-> "tutorialSidebar",
       position |-> "left", label |-> "Docs"],
      [to |-> <<"blog">>, label |-> "Blog", position |-> "left"],
      [href |-> GitHubHref, label |-> "GitHub", position |-> "right"]>>

\* docusaurus.config.ts, themeConfig.footer.links.
FooterLinks ==
    <<[title |-> "Docs",
       items |-> <<[label |-> "Introduction", to |-> <<"docs", "intro">>]>>],
      [title |-> "Community",
       items |-> <<[label |-> "GitHub", href |-> GitHubHref]>>]>>

\* docusaurus.config.ts
config ==
    [title |-> "BrewKits",
     tagline |-> "Publishing Excellence for Flutter & Kotlin Multiplatform Libraries",
     url |-> "https://brewkits.dev", baseUrl |-> "/",
     themeConfig |->
         [navbar |-> [title |-> "BrewKits", items |-> NavbarItems],
          footer |-> [style |-> "dark", links |-> FooterLinks],
          colorMode |-> [defaultMode |-> "dark"]]]

\* The navbar items of the other configuration object.
NavbarItemsTrafficControl ==
    <<[to |-> <<"docs", "intro">>, label |-> "Docs", position |-> "left"],
      [to |-> <<"blog">>, label |-> "Blog", position |-> "left"],
      [href |-> GitHubHref, label |-> "GitHub", position |-> "right"]>>

\* The other configuration object present in the source; its footer has
\* no links.
configTrafficControl ==
    [title |-> "BrewKits",
     tagline |-> "The Traffic Control System for your App Architecture",
     url |-> "https://brewkits.dev", baseUrl |-> "/",
     themeConfig |->
         [navbar |-> [title |-> "BrewKits", items |-> NavbarItemsTrafficControl],
          footer |-> [style |-> "dark"],
          colorMode |-> [defaultMode |-> "dark"]]]

\* A configuration with another title and tagline, for statements about
\* every configuration.
configOther ==
    [config EXCEPT !.title = "My Site", !.tagline = "Dinosaurs are cool"]

Configs == {config, configTrafficControl, configOther}

\* Fault: the first link points at '/docs', which has no page of its own.
HomepageHeader_DocsRoot(cfg) ==
    [kind |-> "HomepageHeader",
     heading |-> cfg.title,
     subtitle |-> cfg.tagline,
     links |-> <<[to |-> <<"docs">>, text |-> "Explore Our Libraries"],
                 [to |-> <<"blog">>, text |-> "Read Our Blog"]>>]

\* Fault: title and tagline read the wrong way round.
HomepageHeader_Swapped(cfg) ==
    [kind |-> "HomepageHeader",
     heading |-> cfg.tagline,
     subtitle |-> cfg.title,
     links |-> <<[to |-> <<"docs", "intro">>, text |-> "Explore Our Libraries"],
                 [to |-> <<"blog">>, text |-> "Read Our Blog"]>>]

HomepageHeader(cfg) ==
    [kind |-> "HomepageHeader",
     heading |-> cfg.title,
     subtitle |-> cfg.tagline,
     links |-> <<[to |-> <<"docs", "intro">>, text |-> "Explore Our Libraries"],
                 [to |-> <<"blog">>, text |-> "Read Our Blog"]>>]

\* Fault: the feature list rendered above the header.
Home_FeaturesFirst(cfg, list, w) ==
    [kind |-> "Home",
     layoutTitle |-> <<"Welcome to ", cfg.title>>,
     children |-> <<HomepageFeatures(list),
                    HomepageHeader(cfg),
                    [kind |-> "section", heading |-> "Support Our Work",
                     widget |-> BuyMeACoffee(w)]>>]

\* Fault: the support section left out of the page.
Home_WithoutSupport(cfg, list, w) ==
    [kind |-> "Home",
     layoutTitle |-> <<"Welcome to ", cfg.title>>,
     children |-> <<HomepageHeader(cfg), HomepageFeatures(list)>>]

Home(cfg, list, w) ==
    [kind |-> "Home",
     layoutTitle |-> <<"Welcome to ", cfg.title>>,
     children |-> <<HomepageHeader(cfg),
                    HomepageFeatures(list),
                    [kind |-> "section", heading |-> "Support Our Work",
                     widget |-> BuyMeACoffee(w)]>>]

(***************************************************************************)
(* The state machine.                                                      *)
(***************************************************************************)
Init ==
    /\ routes = RouteTable
    /\ featureList = FeatureList
    /\ siteConfig \in Configs
    /\ widget \in Widgets
    /\ location = <<>>
    /\ mounted = matchRoutes(RouteTable, <<>>)
    /\ rendered = [kind |-> "none"]
    /\ work = <<>>
    /\ visits = <<>>

\* The router resolves a navigation to pathname against the route table.
Navigate(pathname) ==
    /\ location' = pathname
    /\ mounted' = matchRoutes(routes, pathname)
    /\ UNCHANGED <<work, visits, routes, featureList, siteConfig, widget, rendered>>

\* Fault: the render rotates the module-level list in place.
RenderHomepageFeatures_Mutating ==
    /\ rendered' = HomepageFeatures(featureList)
    /\ featureList' = Tail(featureList) \o <<Head(featureList)>>
    /\ UNCHANGED <<work, visits, routes, siteConfig, widget, location, mounted>>

RenderHomepageFeatures ==
    /\ rendered' = HomepageFeatures(featureList)
    /\ UNCHANGED <<work, visits, routes, featureList, siteConfig, widget, location, mounted>>

\* Fault: the render consumes the first entry of the route table.
RenderBuyMeACoffee_DropsRoute ==
    /\ rendered' = BuyMeACoffee(widget)
    /\ routes' = Tail(routes)
    /\ UNCHANGED <<work, visits, featureList, siteConfig, widget, location, mounted>>

RenderBuyMeACoffee ==
    /\ rendered' = BuyMeACoffee(widget)
    /\ UNCHANGED <<work, visits, routes, featureList, siteConfig, widget, location, mounted>>

RenderHomepageHeader ==
    /\ rendered' = HomepageHeader(siteConfig)
    /\ UNCHANGED <<work, visits, routes, featureList, siteConfig, widget, location, mounted>>

\* Fault: the render overwrites the configured title.
RenderHome_Mutating ==
    /\ rendered' = Home(siteConfig, featureList, widget)
    /\ siteConfig' = [siteConfig EXCEPT !.title = "Welcome"]
    /\ UNCHANGED <<work, visits, routes, featureList, widget, location, mounted>>

RenderHome ==
    /\ rendered' = Home(siteConfig, featureList, widget)
    /\ UNCHANGED <<work, visits, routes, featureList, siteConfig, widget, location, mounted>>

Next ==
    \/ \E pathname \in NavPaths : Navigate(pathname)
    \/ RenderHomepageFeatures
    \/ RenderBuyMeACoffee
    \/ RenderHomepageHeader
    \/ RenderHome

Spec == Init /\ [][Next]_vars

(***************************************************************************)
(* The same router over a table whose entries were emitted in another     *)
(* order: sibling entries swapped or reversed, '*' kept last.             *)
(***************************************************************************)
SwapAt(s, i) ==
    [k \in DOMAIN s |-> IF k = i THEN s[i + 1] ELSE IF k = i + 1 THEN s[i] ELSE s[k]]

Reverse(s) == [k \in DOMAIN s |-> s[Len(s) + 1 - k]]

\* The innermost '/docs' entry's children replaced by leaves.
WithDocsLeaves(rs, leaves) ==
    [k \in DOMAIN rs |->
        IF rs[k].routes # <<>>
        THEN [rs[k] EXCEPT !.routes[1].routes[1].routes = leaves]
        ELSE rs[k]]

Reorderings ==
    LET n == Len(RouteTable) - 1
        top == SubSeq(RouteTable, 1, n)
        star == <<RouteTable[n + 1]>>
    IN  {RouteTable, Reverse(top) \o star}
            \cup {SwapAt(top, i) \o star : i \in 1..(n - 1)}
            \cup {WithDocsLeaves(RouteTable, SwapAt(DocsLeafRoutes, i)) :
                      i \in 1..(Len(DocsLeafRoutes) - 1)}
            \cup {WithDocsLeaves(Reverse(top) \o star, Reverse(DocsLeafRoutes))}

InitOrder ==
    /\ routes \in Reorderings
    /\ featureList = FeatureList
    /\ siteConfig = config
    /\ widget = "coffeeContainer"
    /\ location = <<>>
    /\ mounted = matchRoutes(routes, <<>>)
    /\ rendered = [kind |-> "none"]
    /\ work = <<>>
    /\ visits = <<>>

NextOrder == \E pathname \in NavPaths : Navigate(pathname)

SpecOrder == InitOrder /\ [][NextOrder]_vars

(***************************************************************************)
(* The documents: directory, route segment and front-matter position.     *)
(***************************************************************************)
\* Fault: two documents of docs/kmp given the same position.
DocFiles_DuplicatePosition ==
    <<[dir |-> <<>>, id |-> "intro", sidebar_position |-> 1],
      [dir |-> <<"flutter">>, id |-> "publishing", sidebar_position |-> 2],
      [dir |-> <<"flutter">>, id |-> "getting-started", sidebar_position |-> 1],
      [dir |-> <<"flutter">>, id |-> "best-practices", sidebar_position |-> 3],
      [dir |-> <<"kmp">>, id |-> "getting-started", sidebar_position |-> 1],
      [dir |-> <<"kmp">>, id |-> "best-practices", sidebar_position |-> 2],
      [dir |-> <<"kmp">>, id |-> "publishing", sidebar_position |-> 2]>>

DocFiles ==
    <<[dir |-> <<>>, id |-> "intro", sidebar_position |-> 1],
      [dir |-> <<"flutter">>, id |-> "publishing", sidebar_position |-> 2],
      [dir |-> <<"flutter">>, id |-> "getting-started", sidebar_position |-> 1],
      [dir |-> <<"flutter">>, id |-> "best-practices", sidebar_position |-> 3],
      [dir |-> <<"kmp">>, id |-> "getting-started", sidebar_position |-> 1],
      [dir |-> <<"kmp">>, id |-> "best-practices", sidebar_position |-> 3],
      [dir |-> <<"kmp">>, id |-> "publishing", sidebar_position |-> 2]>>

(***************************************************************************)
(* Following the internal links the pages offer, starting at '/'.         *)
(***************************************************************************)
\* Fault: a post tagged with a tag that has no page.
BlogPosts_ExtraTag ==
    <<[slug |-> "welcome-to-brewkits",
       authors |-> <<"brewkits">>,
       tags |-> <<<<"a", "n", "n", "o", "u", "n", "c", "e", "m", "e", "n", "t">>,
                 <<"b", "r", "e", "w", "k", "i", "t", "s">>,
                 <<"f", "l", "u", "t", "t", "e", "r">>,
                 <<"k", "m", "p">>,
                 <<"d", "a", "r", "t">>>>,
       links |-> {<<"docs", "intro">>}],
      [slug |-> "flutter-publishing-guide",
       authors |-> <<"brewkits">>,
       tags |-> <<<<"f", "l", "u", "t", "t", "e", "r">>,
                 <<"p", "u", "b", ".", "d", "e", "v">>,
                 <<"p", "u", "b", "l", "i", "s", "h", "i", "n", "g">>,
                 <<"t", "u", "t", "o", "r", "i", "a", "l">>>>,
       links |-> {<<"docs", "flutter", "getting-started">>,
                  <<"docs", "flutter", "publishing">>,
                  <<"docs", "flutter", "best-practices">>}],
      [slug |-> "kmp-getting-started",
       authors |-> <<"brewkits">>,
       tags |-> <<<<"k", "o", "t", "l", "i", "n">>,
                 <<"k", "m", "p">>,
                 <<"m", "u", "l", "t", "i", "p", "l", "a", "t", "f", "o", "r", "m">>,
                 <<"t", "u", "t", "o", "r", "i", "a", "l">>>>,
       links |-> {<<"docs", "kmp", "best-practices">>,
                  <<"docs", "kmp", "publishing">>}]>>

\* The blog posts: slug, authors and tags from the front matter (a tag as
\* its characters), and the absolute internal links of the body.
BlogPosts ==
    <<[slug |-> "welcome-to-brewkits",
       authors |-> <<"brewkits">>,
       tags |-> <<<<"a", "n", "n", "o", "u", "n", "c", "e", "m", "e", "n", "t">>,
                 <<"b", "r", "e", "w", "k", "i", "t", "s">>,
                 <<"f", "l", "u", "t", "t", "e", "r">>,
                 <<"k", "m", "p">>>>,
       links |-> {<<"docs", "intro">>}],
      [slug |-> "flutter-publishing-guide",
       authors |-> <<"brewkits">>,
       tags |-> <<<<"f", "l", "u", "t", "t", "e", "r">>,
                 <<"p", "u", "b", ".", "d", "e", "v">>,
                 <<"p", "u", "b", "l", "i", "s", "h", "i", "n", "g">>,
                 <<"t", "u", "t", "o", "r", "i", "a", "l">>>>,
       links |-> {<<"docs", "flutter", "getting-started">>,
                  <<"docs", "flutter", "publishing">>,
                  <<"docs", "flutter", "best-practices">>}],
      [slug |-> "kmp-getting-started",
       authors |-> <<"brewkits">>,
       tags |-> <<<<"k", "o", "t", "l", "i", "n">>,
                 <<"k", "m", "p">>,
                 <<"m", "u", "l", "t", "i", "p", "l", "a", "t", "f", "o", "r", "m">>,
                 <<"t", "u", "t", "o", "r", "i", "a", "l">>>>,
       links |-> {<<"docs", "kmp", "best-practices">>,
                  <<"docs", "kmp", "publishing">>}]>>

\* docs/intro.md links to the blog index, twice.
DocsIntroLinks == {<<"blog">>}

\* The internal targets of a sequence of link items (those with a 'to').
Targets(items) == {items[i].to : i \in {j \in DOMAIN items : "to" \in DOMAIN items[j]}}

\* Navbar and footer, on every page.
LayoutLinks(cfg) ==
    Targets(cfg.themeConfig.navbar.items) \cup
    (IF "links" \in DOMAIN cfg.themeConfig.footer
     THEN UNION {Targets(cfg.themeConfig.footer.links[i].items) :
                    i \in DOMAIN cfg.themeConfig.footer.links}
     ELSE {})

\* The links of the page at pathname: the layout's, the homepage header's
\* on '/', the body links of a document or post on its own page, and on
\* the blog index (which shows each post up to its truncate marker) the
\* link to each post.
LinksOn(pathname, cfg) ==
    LayoutLinks(cfg)
    \cup (IF pathname = <<>> THEN Targets(HomepageHeader(cfg).links) ELSE {})
    \cup (IF pathname = <<"docs", "intro">> THEN DocsIntroLinks ELSE {})
    \cup (IF pathname = <<"blog">>
          THEN {<<"blog", BlogPosts[i].slug>> : i \in DOMAIN BlogPosts} ELSE {})
    \cup UNION {IF pathname = <<"blog", BlogPosts[i].slug>> THEN BlogPosts[i].links ELSE {} :
                   i \in DOMAIN BlogPosts}

FollowLink ==
    \E target \in LinksOn(location, siteConfig) : Navigate(target)

NextLinks ==
    \/ FollowLink
    \/ RenderHomepageFeatures
    \/ RenderBuyMeACoffee
    \/ RenderHomepageHeader
    \/ RenderHome

SpecLinks == Init /\ [][NextLinks]_vars

(***************************************************************************)
(* The resolution of one navigation taken entry by entry: the traversal   *)
(* of matchRoutes with each visit of an entry a step of its own.          *)
(***************************************************************************)
Resolving == work # <<>>

\* A navigation starts: nothing matched yet, the top-level siblings to try.
StartResolve(pathname) ==
    /\ ~Resolving
    /\ location' = pathname
    /\ mounted' = <<>>
    /\ work' = routes
    /\ visits' = <<>>
    /\ UNCHANGED <<routes, featureList, siteConfig, widget, rendered>>

\* The next sibling is tried: on a match it joins the branch and its
\* children become the siblings to try; otherwise the rest are tried.
VisitEntry ==
    /\ Resolving
    /\ visits' = Append(visits, Head(work).component)
    /\ IF matchPath(location, Head(work))
       THEN /\ mounted' = Append(mounted, Head(work))
            /\ work' = Head(work).routes
       ELSE /\ mounted' = mounted
            /\ work' = Tail(work)
    /\ UNCHANGED <<routes, featureList, siteConfig, widget, location, rendered>>

NextSteps ==
    \/ \E pathname \in NavPaths : StartResolve(pathname)
    \/ VisitEntry

\* A resolution runs to completion: the router is synchronous.
SpecSteps == Init /\ [][NextSteps]_vars /\ WF_vars(VisitEntry)

(***************************************************************************)
(* Properties.                                                             *)
(***************************************************************************)
Entries == Range(Flatten(routes))

EntryPaths == {e.path : e \in Entries}

\* Entries whose path is the pathname itself.
ExactMatches(pathname) == {e \in Entries : e.path = pathname}

\* Non-exact entries other than '*' whose path prefixes the pathname.
PrefixMatches(pathname) ==
    {e \in Entries : ~e.exact /\ e.path # Star /\ IsPrefix(e.path, pathname)}

\* Markup of the feature list and of the support widget, wherever rendered.
RenderedFeatures ==
    IF rendered.kind = "HomepageFeatures" THEN {rendered}
    ELSE IF rendered.kind = "Home" THEN {rendered.children[2]}
    ELSE {}

RenderedWidgets ==
    IF rendered.kind = "BuyMeACoffee" THEN {rendered}
    ELSE IF rendered.kind = "Home" THEN {rendered.children[3].widget}
    ELSE {}

RenderedHeaders ==
    IF rendered.kind = "HomepageHeader" THEN {rendered}
    ELSE IF rendered.kind = "Home" THEN {rendered.children[1]}
    ELSE {}

HttpsPrefix == <<"h", "t", "t", "p", "s", ":", "/", "/">>

\* C1: at the path of a route entry the matched branch holds that entry,
\* ends in an entry of that path (the entry itself when it is exact) and
\* never holds the catch-all.
C1_DefinedPathResolvesToItsEntry ==
    \A e \in Entries :
        (e.path # Star /\ location = e.path) =>
            /\ e \in Range(mounted)
            /\ \A m \in Range(mounted) : m.path # Star
            /\ Last(mounted).path = e.path
            /\ (e.exact => Last(mounted) = e)

C1_Witness ==
    /\ location = <<"docs", "intro">>
    /\ Len(mounted) = 4
    /\ Last(mounted).component = ComponentCreator(<<"docs", "intro">>, "61d")

\* C2 as stated: at a path that is no entry's path the matched branch is
\* the catch-all entry alone.
C2_UndefinedPathYieldsCatchAll ==
    location \notin EntryPaths =>
        Len(mounted) = 1 /\ mounted[1].path = Star

\* C2 amended: at a path that is no entry's path the branch is the
\* catch-all alone unless a non-exact entry other than '*' prefixes the
\* path; below '/docs' it is the three '/docs' wrappers, without '*'.
C2_UndefinedPathOutsideDocsYieldsCatchAll ==
    location \notin EntryPaths =>
        IF PrefixMatches(location) = {}
        THEN Len(mounted) = 1 /\ mounted[1].path = Star
        ELSE /\ IsPrefix(<<"docs">>, location)
             /\ Len(mounted) = 3
             /\ \A m \in Range(mounted) : m.path = <<"docs">> /\ m.routes # <<>>

C2_Witness ==
    /\ location = <<"blog", "unknown">>
    /\ Len(mounted) = 1
    /\ mounted[1].component = ComponentCreator(Star, Undefined)

\* C3: the branch ends in an entry whose path is the pathname when there
\* is one; else in a non-exact prefix entry when there is one; else it is
\* the catch-all alone.
C3_MostSpecificEntryChosen ==
    /\ mounted # <<>>
    /\ ExactMatches(location) # {} => Last(mounted) \in ExactMatches(location)
    /\ (ExactMatches(location) = {} /\ PrefixMatches(location) # {}) =>
           Last(mounted) \in PrefixMatches(location)
    /\ (ExactMatches(location) = {} /\ PrefixMatches(location) = {}) =>
           Len(mounted) = 1 /\ mounted[1].path = Star

C3_Witness ==
    /\ location = <<"blog", "tags", "kotlin">>
    /\ Last(mounted).component = ComponentCreator(<<"blog", "tags", "kotlin">>, "50b")
    /\ ExactMatches(location) # {}

\* C4 as stated: no two entries of the flattened tree have the same path.
C4_PathsUnique ==
    LET flat == Flatten(routes) IN
    \A i, j \in DOMAIN flat : i # j => flat[i].path # flat[j].path

\* C4 amended: two entries of the flattened tree have the same path only
\* when both are '/docs' entries with children; top-level paths and the
\* paths of entries without children are unique.
C4_PathsUniqueExceptDocsWrappers ==
    LET flat == Flatten(routes) IN
    /\ \A i, j \in DOMAIN flat :
           (i # j /\ flat[i].path = flat[j].path) =>
               /\ flat[i].path = <<"docs">>
               /\ flat[i].routes # <<>> /\ flat[j].routes # <<>>
    /\ \A i, j \in DOMAIN routes : i # j => routes[i].path # routes[j].path

C4_Witness ==
    /\ location = <<"docs", "kmp", "publishing">>
    /\ Len(mounted) = 4
    /\ mounted[1].path = mounted[2].path /\ mounted[2].path = mounted[3].path
    /\ mounted[1] # mounted[2] /\ mounted[2] # mounted[3]

\* C5: the top-level sequence has exactly one '*' entry and it is the last.
C5_CatchAllIsLastAndOnly ==
    /\ routes # <<>>
    /\ routes[Len(routes)].path = Star
    /\ Cardinality({i \in DOMAIN routes : routes[i].path = Star}) = 1

C5_Witness ==
    /\ location = <<"unknown">>
    /\ mounted = <<routes[Len(routes)]>>

C7_ThreeNonEmptyFeatures ==
    \A f \in RenderedFeatures :
        /\ Len(f.row) = 3
        /\ \A idx \in DOMAIN f.row : f.row[idx].heading # "" /\ f.row[idx].text # ""

C7_Witness ==
    /\ rendered.kind = "HomepageFeatures"
    /\ rendered.row[3].heading = "Open Source Excellence"

\* C8: a rendered support widget, of either module, has at least one link
\* and every link's href begins with 'https://'.
C8_LinksAreHttps ==
    \A w \in RenderedWidgets :
        /\ Len(w.links) >= 1
        /\ \A i \in DOMAIN w.links : IsPrefix(HttpsPrefix, w.links[i].href)

C8_Witness ==
    /\ widget = "coffeeContainer"
    /\ rendered.kind = "BuyMeACoffee"
    /\ rendered.links[1].href = CoffeeHref

\* C9: a rendered support widget has one or two links, each with target
\* '_blank' and rel 'noopener noreferrer'.
C9_OneOrTwoLinksInNewContext ==
    \A w \in RenderedWidgets :
        /\ Len(w.links) \in {1, 2}
        /\ \A i \in DOMAIN w.links :
               /\ w.links[i].target = "_blank"
               /\ w.links[i].rel = "noopener noreferrer"

C9_Witness ==
    /\ widget = "supportContainer"
    /\ rendered.kind = "BuyMeACoffee"
    /\ Len(rendered.links) = 2
    /\ rendered.links[2].href = PatreonHref

\* C10: a rendered homepage header has the configured title as its heading
\* and the configured tagline as its subtitle, unchanged.
C10_HeaderShowsTitleAndTagline ==
    \A h \in RenderedHeaders :
        h.heading = siteConfig.title /\ h.subtitle = siteConfig.tagline

C10_Witness ==
    /\ siteConfig = config
    /\ rendered.kind = "HomepageHeader"
    /\ rendered.heading = "BrewKits"
    /\ rendered.subtitle = "Publishing Excellence for Flutter & Kotlin Multiplatform Libraries"

\* C11: a rendered homepage header has exactly two navigation links, the
\* first to '/docs/intro' and the second to '/blog'; a rendered Home holds
\* the header, the feature list and a section with the support widget.
C11_TwoHeaderLinksAndEmbeds ==
    /\ \A h \in RenderedHeaders :
           /\ Len(h.links) = 2
           /\ h.links[1].to = <<"docs", "intro">>
           /\ h.links[2].to = <<"blog">>
    /\ rendered.kind = "Home" =>
           /\ \E i \in DOMAIN rendered.children :
                  rendered.children[i].kind = "HomepageHeader"
           /\ \E i \in DOMAIN rendered.children :
                  rendered.children[i] = HomepageFeatures(featureList)
           /\ \E i \in DOMAIN rendered.children :
                  /\ rendered.children[i].kind = "section"
                  /\ rendered.children[i].widget = BuyMeACoffee(widget)

C11_Witness ==
    /\ rendered.kind = "Home"
    /\ Len(rendered.children) = 3
    /\ Len(rendered.children[1].links) = 2
    /\ widget = "supportContainer"

ComponentKinds == {"HomepageFeatures", "BuyMeACoffee", "HomepageHeader", "Home"}

\* What a component renders from the inputs of the current state.
Output(kind) ==
    CASE kind = "HomepageFeatures" -> HomepageFeatures(featureList)
      [] kind = "BuyMeACoffee" -> BuyMeACoffee(widget)
      [] kind = "HomepageHeader" -> HomepageHeader(siteConfig)
      [] kind = "Home" -> Home(siteConfig, featureList, widget)

\* C12: no step (render or navigation) changes what any component would
\* render, and every render yields exactly that; so two renders of a
\* component give the same markup whatever happened in between.
C12_RenderIdempotent ==
    [][\A k \in ComponentKinds :
           /\ Output(k)' = Output(k)
           /\ (rendered'.kind = k /\ rendered' # rendered) => rendered' = Output(k)]_vars

C12_Witness ==
    /\ rendered.kind = "HomepageFeatures"
    /\ rendered = Output("HomepageFeatures")
    /\ location = <<"blog", "archive">>

\* C13: in every reachable state the route table and the feature list are
\* the ones of the source, and no step changes the site configuration or
\* the support widget (and so its links).
C13_StaticDataUnchanged ==
    /\ [](routes = RouteTable /\ featureList = FeatureList)
    /\ [][/\ siteConfig' = siteConfig
          /\ widget' = widget
          /\ BuyMeACoffee(widget)'.links = BuyMeACoffee(widget).links]_vars

C13_Witness ==
    /\ rendered.kind = "Home"
    /\ location = <<"docs", "kmp", "publishing">>
    /\ routes = RouteTable
    /\ featureList = FeatureList
    /\ siteConfig = configTrafficControl

\* C14: the navbar items are, in order, Docs, Blog and GitHub; each has a
\* label, a position and a target (a path, an external href, or for a
\* docSidebar item the sidebar it opens); Docs and Blog are on the left
\* and GitHub on the right.
C14_NavbarItemsOrdered ==
    LET items == siteConfig.themeConfig.navbar.items IN
    /\ [i \in DOMAIN items |-> items[i].label] = <<"Docs", "Blog", "GitHub">>
    /\ [i \in DOMAIN items |-> items[i].position] = <<"left", "left", "right">>
    /\ \A i \in DOMAIN items :
           /\ {"label", "position"} \subseteq DOMAIN items[i]
           /\ \/ "to" \in DOMAIN items[i]
              \/ "href" \in DOMAIN items[i]
              \/ /\ "type" \in DOMAIN items[i]
                 /\ items[i].type = "docSidebar"
                 /\ "sidebarId" \in DOMAIN items[i]

C14_Witness ==
    /\ siteConfig = config
    /\ rendered.kind = "HomepageHeader"
    /\ siteConfig.themeConfig.navbar.items[1].sidebarId = "tutorialSidebar"
    /\ location = <<"blog">>

\* The entries the rule "exact match first, then prefix, then catch-all"
\* admits for a pathname.
SpecChoices(pathname) ==
    IF ExactMatches(pathname) # {} THEN ExactMatches(pathname)
    ELSE IF PrefixMatches(pathname) # {} THEN PrefixMatches(pathname)
    ELSE {e \in Entries : e.path = Star}

\* The siblings other than '*' that match a pathname.
MatchingSiblings(rs, pathname) ==
    {i \in DOMAIN rs : rs[i].path # Star /\ matchPath(pathname, rs[i])}

\* C15 (over reordered tables): the ordered traversal ends in an entry the
\* exact-then-prefix-then-catch-all rule admits; the branch is the one the
\* traversal finds in the table as emitted, whatever the order of the
\* siblings (top-level entries and docs leaves, '*' last); and at every
\* level visited at most one sibling other than '*' matches, so that no
\* order of the siblings can change the choice.
C15_TraversalAgreesWithRuleInAnyOrder ==
    /\ mounted # <<>>
    /\ Cardinality(MatchingSiblings(routes, location)) <= 1
    /\ \A i \in DOMAIN mounted :
           Cardinality(MatchingSiblings(mounted[i].routes, location)) <= 1
    /\ Last(mounted) \in SpecChoices(location)
    /\ [i \in DOMAIN mounted |-> mounted[i].component]
           = [i \in DOMAIN matchRoutes(RouteTable, location) |->
                  matchRoutes(RouteTable, location)[i].component]

C15_Witness ==
    /\ routes # RouteTable
    /\ routes[1].path = <<>>
    /\ location = <<"docs", "flutter", "publishing">>
    /\ Last(mounted).component = ComponentCreator(<<"docs", "flutter", "publishing">>, "a10")

\* The exact entries without children whose path is the pathname.
ExactLeaves(pathname) ==
    {e \in Entries : e.exact /\ e.routes = <<>> /\ e.path = pathname}

\* C16 as stated: the matched branch ends in an entry without children
\* that is an exact leaf of the pathname or the catch-all.
C16_BranchEndsInLeafOrCatchAll ==
    /\ mounted # <<>>
    /\ Last(mounted).routes = <<>>
    /\ \/ Last(mounted) \in ExactLeaves(location)
       \/ Last(mounted).path = Star

\* C16 amended: the matched branch ends in the exact leaf of the pathname
\* when there is one; else, when the pathname is '/docs' or below it, in
\* the innermost '/docs' wrapper, which has children none of which
\* matches; else in the catch-all.
C16_BranchEndsInLeafWrapperOrCatchAll ==
    /\ mounted # <<>>
    /\ IF ExactLeaves(location) # {}
       THEN Last(mounted) \in ExactLeaves(location)
       ELSE IF IsPrefix(<<"docs">>, location)
       THEN /\ Len(mounted) = 3
            /\ Last(mounted).path = <<"docs">>
            /\ Last(mounted).routes # <<>>
            /\ MatchingSiblings(Last(mounted).routes, location) = {}
       ELSE Last(mounted).routes = <<>> /\ Last(mounted).path = Star

C16_Witness ==
    /\ location = <<"docs">>
    /\ Len(mounted) = 3
    /\ Last(mounted).component = ComponentCreator(<<"docs">>, "d99")
    /\ Last(mounted).routes # <<>>

\* The depth of a route tree.
RECURSIVE Depth(_)
Depth(rs) ==
    IF rs = <<>> THEN 0
    ELSE LET d == 1 + Depth(Head(rs).routes)
             t == Depth(Tail(rs))
         IN  IF d > t THEN d ELSE t

\* C19 (entry by entry): a resolution tries no entry twice, its branch is
\* never deeper than the route tree, it always comes to an end, and at
\* its end the branch is not empty and is the branch of matchRoutes.
C19_ResolutionTerminates ==
    /\ [](/\ \A i, j \in DOMAIN visits : i # j => visits[i] # visits[j]
          /\ Len(visits) <= Len(Flatten(routes))
          /\ Len(mounted) <= Depth(routes)
          /\ ~Resolving => (mounted # <<>> /\ mounted = matchRoutes(routes, location)))
    /\ (Resolving ~> ~Resolving)

C19_Witness ==
    /\ ~Resolving
    /\ location = <<"docs", "kmp", "publishing">>
    /\ Len(visits) = 28
    /\ Len(mounted) = 4

\* C17 (following links from '/'): the page reached is always the exact
\* leaf entry of its path, never the catch-all and never a wrapper alone.
C17_LinksLandOnDefinedRoutes ==
    /\ mounted # <<>>
    /\ \A m \in Range(mounted) : m.path # Star
    /\ Last(mounted).exact
    /\ Last(mounted).routes = <<>>
    /\ Last(mounted).path = location

C17_Witness ==
    /\ location = <<"docs", "kmp", "publishing">>
    /\ siteConfig = configTrafficControl
    /\ Last(mounted).component = ComponentCreator(<<"docs", "kmp", "publishing">>, "a36")

\* C18: whatever navigations and renders came before, what is mounted for
\* the current path is what the table as loaded resolves that path to.
C18_ResolutionHistoryIndependent ==
    mounted = matchRoutes(RouteTable, location)

C18_Witness ==
    /\ location = <<"blog", "tags">>
    /\ rendered.kind = "BuyMeACoffee"
    /\ mounted = matchRoutes(RouteTable, <<"blog", "tags">>)
    /\ Len(mounted) = 1

\* C20: a rendered feature list has one column per FeatureList entry, in
\* list order, with that entry's icon, title and description; every
\* column is 'col col--4', and the columns, 4 units each, fill 12 units.
C20_OneColumnPerFeature ==
    \A f \in RenderedFeatures :
        /\ Len(f.row) = Len(featureList)
        /\ \A idx \in DOMAIN f.row :
               /\ f.row[idx].Svg = featureList[idx].Svg
               /\ f.row[idx].heading = featureList[idx].title
               /\ f.row[idx].text = featureList[idx].description
               /\ f.row[idx].className = "col col--4"
        /\ Len(f.row) * 4 = 12

C20_Witness ==
    /\ rendered.kind = "HomepageFeatures"
    /\ rendered.row[2].Svg = "@site/static/img/undraw_docusaurus_tree.svg"
    /\ rendered.row[2].heading = "Kotlin Multiplatform"
    /\ rendered.row[2].className = "col col--4"

\* C21: a rendered Home holds, in this order and once each, the header,
\* the feature list and the support section with the support widget; the
\* layout title is 'Welcome to ' followed by the configured title.
C21_HomeLayoutOrder ==
    rendered.kind = "Home" =>
        /\ [i \in DOMAIN rendered.children |-> rendered.children[i].kind]
               = <<"HomepageHeader", "HomepageFeatures", "section">>
        /\ rendered.children[1] = HomepageHeader(siteConfig)
        /\ rendered.children[2] = HomepageFeatures(featureList)
        /\ rendered.children[3].widget = BuyMeACoffee(widget)
        /\ rendered.layoutTitle = <<"Welcome to ", siteConfig.title>>

C21_Witness ==
    /\ rendered.kind = "Home"
    /\ siteConfig = configOther
    /\ rendered.layoutTitle = <<"Welcome to ", "My Site">>
    /\ rendered.children[3].widget.className = "coffeeContainer"

\* Every entry of a tree has children exactly when it is not exact ('*'
\* apart), and every child's path extends its parent's.
RECURSIVE WellNested(_)
WellNested(rs) ==
    \A i \in DOMAIN rs :
        /\ rs[i].routes # <<>> => ~rs[i].exact
        /\ (rs[i].routes = <<>> /\ rs[i].path # Star) => rs[i].exact
        /\ \A j \in DOMAIN rs[i].routes :
               IsPrefix(rs[i].path, rs[i].routes[j].path)
        /\ WellNested(rs[i].routes)

\* C22: in the route tree every entry with children is non-exact, every
\* entry without children other than '*' is exact, and every child's path
\* has its parent's path as a prefix.
C22_ExactFlagsAndNesting ==
    WellNested(routes)

C22_Witness ==
    /\ location = <<"docs", "flutter", "getting-started">>
    /\ Len(mounted) = 4
    /\ \A i \in 1..3 : ~mounted[i].exact /\ IsPrefix(mounted[i].path, mounted[i + 1].path)
    /\ mounted[4].exact

\* The characters of a '/blog/tags/<segment>' path segment.
SegmentChars(s) ==
    CASE
         s = "announcement" -> <<"a", "n", "n", "o", "u", "n", "c", "e", "m", "e", "n", "t">>
      [] s = "brewkits" -> <<"b", "r", "e", "w", "k", "i", "t", "s">>
      [] s = "flutter" -> <<"f", "l", "u", "t", "t", "e", "r">>
      [] s = "kmp" -> <<"k", "m", "p">>
      [] s = "kotlin" -> <<"k", "o", "t", "l", "i", "n">>
      [] s = "multiplatform" -> <<"m", "u", "l", "t", "i", "p", "l", "a", "t", "f", "o", "r", "m">>
      [] s = "pub-dev" -> <<"p", "u", "b", "-", "d", "e", "v">>
      [] s = "publishing" -> <<"p", "u", "b", "l", "i", "s", "h", "i", "n", "g">>
      [] s = "tutorial" -> <<"t", "u", "t", "o", "r", "i", "a", "l">>
      [] OTHER -> <<>>

\* The tag as it appears in a path: every '.' becomes '-'.
NormalizeTag(tag) == [i \in DOMAIN tag |-> IF tag[i] = "." THEN "-" ELSE tag[i]]

PostSlugs == {BlogPosts[i].slug : i \in DOMAIN BlogPosts}

PostTags == UNION {Range(BlogPosts[i].tags) : i \in DOMAIN BlogPosts}

PostAuthors == UNION {Range(BlogPosts[i].authors) : i \in DOMAIN BlogPosts}

\* The last segments of the exact routes under a prefix, one segment longer.
RoutesBelow(prefix) ==
    {e.path[Len(e.path)] :
        e \in {r \in Entries : r.exact /\ Len(r.path) = Len(prefix) + 1
                                       /\ IsPrefix(prefix, r.path)}}

\* Posts, tags and authors each have their route, distinct ones distinct
\* routes, and no tag or author route is without its tag or author.
BlogContentHasRoutes ==
    /\ PostSlugs \subseteq RoutesBelow(<<"blog">>)
    /\ \A i, j \in DOMAIN BlogPosts : i # j => BlogPosts[i].slug # BlogPosts[j].slug
    /\ \A t \in PostTags :
           \E s \in RoutesBelow(<<"blog", "tags">>) : SegmentChars(s) = NormalizeTag(t)
    /\ \A t, u \in PostTags : NormalizeTag(t) = NormalizeTag(u) => t = u
    /\ \A s \in RoutesBelow(<<"blog", "tags">>) :
           \E t \in PostTags : SegmentChars(s) = NormalizeTag(t)
    /\ RoutesBelow(<<"blog", "authors">>) = PostAuthors

\* C23 as stated: posts, tags and authors have their routes, and every
\* route '/blog/<x>' is the route of the post with slug x.
C23_BlogRoutesMatchContent ==
    /\ BlogContentHasRoutes
    /\ RoutesBelow(<<"blog">>) \subseteq PostSlugs

\* C23 amended: as stated, except that '/blog/archive', '/blog/authors'
\* and '/blog/tags' are routes '/blog/<x>' of generated list pages, not of
\* posts.
C23_BlogRoutesMatchContentButListPages ==
    /\ BlogContentHasRoutes
    /\ RoutesBelow(<<"blog">>) = PostSlugs \cup {"archive", "authors", "tags"}
    /\ PostSlugs \cap {"archive", "authors", "tags"} = {}

C23_Witness ==
    /\ location = <<"blog", "tags", "pub-dev">>
    /\ Len(mounted) = 1
    /\ mounted[1].exact
    /\ SegmentChars(mounted[1].path[3]) = NormalizeTag(BlogPosts[2].tags[2])
    /\ BlogPosts[2].tags[2] # NormalizeTag(BlogPosts[2].tags[2])

\* The documentation leaves: the entries without children below '/docs'.
DocsLeaves ==
    {e \in Entries : e.routes = <<>> /\ e.path # Star /\ IsPrefix(<<"docs">>, e.path)}

\* C24: every documentation leaf carries the sidebar 'tutorialSidebar',
\* and a docSidebar item of the navbar names that same sidebar.
C24_DocsLeavesUnderNavbarSidebar ==
    LET items == siteConfig.themeConfig.navbar.items IN
    /\ DocsLeaves # {}
    /\ \A e \in DocsLeaves : e.sidebar = "tutorialSidebar"
    /\ \A i \in DOMAIN items :
           "sidebarId" \in DOMAIN items[i] =>
               \A e \in DocsLeaves : e.sidebar = items[i].sidebarId

C24_Witness ==
    /\ siteConfig = config
    /\ siteConfig.themeConfig.navbar.items[1].label = "Docs"
    /\ location = <<"docs", "flutter", "best-practices">>
    /\ Last(mounted).sidebar = siteConfig.themeConfig.navbar.items[1].sidebarId

\* C25: every entry's component is created for the entry's own path, and
\* no two entries of the tree have the same path and hash.
C25_ComponentsCreatedForOwnPath ==
    LET flat == Flatten(routes) IN
    /\ \A i \in DOMAIN flat : flat[i].component.path = flat[i].path
    /\ \A i, j \in DOMAIN flat :
           i # j => <<flat[i].path, flat[i].component.hash>>
                        # <<flat[j].path, flat[j].component.hash>>

C25_Witness ==
    /\ location = <<"docs", "intro">>
    /\ Len(mounted) = 4
    /\ mounted[1].path = mounted[2].path
    /\ mounted[1].component.hash # mounted[2].component.hash
    /\ \A i \in DOMAIN mounted : mounted[i].component.path = mounted[i].path

\* C26: two documents of the same directory never have the same
\* sidebar_position; every document is the document of a leaf route.
C26_SidebarPositionsDistinct ==
    /\ \A i, j \in DOMAIN DocFiles :
           (i # j /\ DocFiles[i].dir = DocFiles[j].dir) =>
               DocFiles[i].sidebar_position # DocFiles[j].sidebar_position
    /\ {<<"docs">> \o DocFiles[i].dir \o <<DocFiles[i].id>> : i \in DOMAIN DocFiles}
           = {e.path : e \in DocsLeaves}

C26_Witness ==
    /\ location = <<"docs", "kmp", "best-practices">>
    /\ Last(mounted).exact
    /\ \E i \in DOMAIN DocFiles :
           /\ <<"docs">> \o DocFiles[i].dir \o <<DocFiles[i].id>> = location
           /\ DocFiles[i].sidebar_position = 3

====
